---- MODULE Spec2Model ----
(***************************************************************************)
(* Model of the upload / analysis / results pipeline of the RNSE anomaly   *)
(* SaaS: the backend handler documented in the integration guide (CSV      *)
(* parsing, rnse_run invocation, divergence extraction, INSERT + commit    *)
(* into the results table) and the reads served from the results table,    *)
(* and of the session handling of the React client (AuthProvider,          *)
(* AuthModal, App).                                                        *)
(*                                                                         *)
(* Real numbers are kept in hundredths: 0.3 is 30, 1.0 is 100.             *)
(***************************************************************************)
EXTENDS Integers, Sequences, FiniteSets, TLC

\* ------------------------------------------------------------------ bounds
MaxReqs   == 2      \* upload requests in one behaviour of Spec
MaxOwners == 2      \* distinct user ids
MaxRows   == 11     \* data rows of the largest uploaded CSV
MaxCalls  == 3      \* login / signup requests of the client in flight together
MaxTokens == 2      \* distinct session tokens the server issues
MaxFetches == 2     \* GET /api/results requests of the client in flight together
MaxStored == 2      \* uploads of the client, stored or in flight

\* ------------------------------------------------------- program constants
MinPoints == 10     \* if len(values) < 10
Threshold == 30     \* if confidence > 0.3
NormConst == 100    \* divergence / 1.0
MaxConf   == 100    \* min(1.0, ...)
MinConf   == 0      \* max(0.0, ...)
DefaultD  == 0      \* line.get("D", 0.0)

Reqs   == 1..MaxReqs
Owners == 1..MaxOwners
Null   == [null |-> TRUE]

\* ----------------------------------------------------------- CSV contents
\* A cell of a parsed CSV row: text that float() accepts, or text it rejects.
NumCell(x) == [num |-> TRUE,  v |-> x]
TxtCell    == [num |-> FALSE, v |-> 0]

Header == <<TxtCell, TxtCell>>

\* value written in data row i of a file with value pattern vp
SampleValue(i, vp) == 1000 + ((i * vp) % 3) * 10

\* A data row: "num" = index,value ; "short" = one column only ;
\* "bad" = index,<non numeric text>
DataRow(i, kind, vp) ==
    CASE kind = "num"   -> <<NumCell(i), NumCell(SampleValue(i, vp))>>
      [] kind = "short" -> <<NumCell(i)>>
      [] kind = "bad"   -> <<NumCell(i), TxtCell>>

\* rows of a CSV file with n data rows, row `at` being of kind `kind`
FileRows(n, kind, at, vp) ==
    <<Header>> \o [i \in 1..n |-> DataRow(i, IF i = at THEN kind ELSE "num", vp)]

FileName(vp) == IF vp = 1 THEN "a.csv" ELSE "b.csv"

MkFile(n, kind, at, vp) ==
    [filename |-> FileName(vp), rows |-> FileRows(n, kind, at, vp)]

EmptyFile == [filename |-> "a.csv", rows |-> << >>]

\* uploads tried by the single-request specification
Files ==
    {EmptyFile} \cup
    { MkFile(n, kind, at, vp) :
        n \in (MinPoints - 1)..MaxRows, kind \in {"num", "short", "bad"},
        at \in {1, MinPoints - 1}, vp \in 1..2 }

\* uploads tried by the concurrent specification
StoreFiles ==
    { MkFile(MinPoints, "num", 1, 1), MkFile(MinPoints - 1, "num", 1, 2),
      MkFile(MinPoints, "bad", 1, 2) }

\* uploads tried by the specification that compares two uploads: two files
\* of the same length with different sample values, and a longer one
PairFiles ==
    { MkFile(MinPoints, "num", 1, 1), MkFile(MinPoints, "num", 1, 2),
      MkFile(MaxRows, "num", 1, 1) }

\* ------------------------------------------------------------ CSV parsing
\* outcome of the parsing loop: the values, or the ValueError of float()
Parsed(vals) == [err |-> FALSE, vals |-> vals]
ValueError   == [err |-> TRUE,  vals |-> << >>]

RECURSIVE ParseFromSkip(_, _, _)
\* float() wrapped in a try that skips the row
ParseFromSkip(rows, i, acc) ==
    IF i > Len(rows) THEN Parsed(acc)
    ELSE IF Len(rows[i]) > 1 /\ rows[i][2].num
         THEN ParseFromSkip(rows, i + 1, Append(acc, rows[i][2].v))
         ELSE ParseFromSkip(rows, i + 1, acc)

RECURSIVE ParseFromFirstColumn(_, _, _)
\* the value read from row[0]
ParseFromFirstColumn(rows, i, acc) ==
    IF i > Len(rows) THEN Parsed(acc)
    ELSE IF Len(rows[i]) > 1
         THEN IF rows[i][1].num
              THEN ParseFromFirstColumn(rows, i + 1, Append(acc, rows[i][1].v))
              ELSE ValueError
         ELSE ParseFromFirstColumn(rows, i + 1, acc)

RECURSIVE ParseFrom(_, _, _)
\* for row in rows[1:]: if len(row) > 1: values.append(float(row[1]))
ParseFrom(rows, i, acc) ==
    IF i > Len(rows) THEN Parsed(acc)
    ELSE IF Len(rows[i]) > 1
         THEN IF rows[i][2].num
              THEN ParseFrom(rows, i + 1, Append(acc, rows[i][2].v))
              ELSE ValueError
         ELSE ParseFrom(rows, i + 1, acc)

ParseValues(rows) == ParseFrom(rows, 2, << >>)

\* off by one: a series of exactly MinPoints values is rejected
TooFewOffByOne(vals) == Len(vals) <= MinPoints

\* if len(values) < 10
TooFew(vals) == Len(vals) < MinPoints

\* ------------------------------------------------------------- the scorer
\* A log line of rnse_run: bytes that are not JSON, JSON without "D",
\* or JSON with a numeric "D".
BadLine    == [json |-> FALSE, hasD |-> FALSE, D |-> 0]
NoDLine    == [json |-> TRUE,  hasD |-> FALSE, D |-> 0]
DLine(d)   == [json |-> TRUE,  hasD |-> TRUE,  D |-> d]

\* The installed rnse_core is an unknown deterministic function of
\* (seed64, T, params); seed and params are fixed.  A scorer is described by
\* the divergence of its ordinary ticks and one special tick.
Scorers ==
    { [base |-> b, at |-> k, special |-> s] :
        b \in {0, 31}, k \in {1, 2, MinPoints},
        s \in {BadLine, NoDLine, DLine(-10), DLine(29), DLine(30),
               DLine(31), DLine(100), DLine(120)} }

\* from rnse_core import ... failed: rnse_run = None
NoScorer == [none |-> TRUE]

\* what the import at start-up can leave in rnse_run
Importable == Scorers \cup {NoScorer}

StoreScorers ==
    { [base |-> 0, at |-> 2, special |-> DLine(65)] }

PairScorers ==
    { [base |-> 0, at |-> 2, special |-> DLine(65)],
      [base |-> 0, at |-> MaxRows, special |-> DLine(65)],
      [base |-> 31, at |-> 1, special |-> NoDLine] }

\* result["lines"] of rnse_run(seed64, T = len(values), params)
rnse_run(scorer, T) ==
    [i \in 1..T |-> IF i = scorer.at THEN scorer.special ELSE DLine(scorer.base)]

\* ------------------------------------------------------ anomaly extraction
Min(a, b) == IF a < b THEN a ELSE b
Max(a, b) == IF a > b THEN a ELSE b

Parses(line) == line.json

Divergence(line) == IF line.hasD THEN line.D ELSE DefaultD

\* the normalisation without the clamp
ConfidenceNoClamp(line) == (Divergence(line) * 100) \div NormConst

\* confidence = min(1.0, max(0.0, divergence / 1.0))
Confidence(line) ==
    Min(MaxConf, Max(MinConf, (Divergence(line) * 100) \div NormConst))

\* the comparison written as >=
FlaggedInclusive(line) == Confidence(line) >= Threshold

\* if confidence > 0.3
Flagged(line) == Confidence(line) > Threshold

RECURSIVE ExtractFromBreak(_, _, _)
\* the except branch leaves the loop instead of passing to the next line
ExtractFromBreak(lines, k, acc) ==
    IF k > Len(lines) \/ ~Parses(lines[k]) THEN acc
    ELSE IF Flagged(lines[k])
         THEN ExtractFromBreak(lines, k + 1,
                  [idx  |-> Append(acc.idx, k - 1),
                   conf |-> Append(acc.conf, Confidence(lines[k]))])
         ELSE ExtractFromBreak(lines, k + 1, acc)

RECURSIVE ExtractFromPrepend(_, _, _)
\* the flag is put in front of the lists: insert(0, ...) for append(...)
ExtractFromPrepend(lines, k, acc) ==
    IF k > Len(lines) THEN acc
    ELSE IF Parses(lines[k]) /\ Flagged(lines[k])
         THEN ExtractFromPrepend(lines, k + 1,
                  [idx  |-> <<k - 1>> \o acc.idx,
                   conf |-> <<Confidence(lines[k])>> \o acc.conf])
         ELSE ExtractFromPrepend(lines, k + 1, acc)

RECURSIVE ExtractFromOneBased(_, _, _)
\* enumerate(result["lines"], 1): the positions counted from 1
ExtractFromOneBased(lines, k, acc) ==
    IF k > Len(lines) THEN acc
    ELSE IF Parses(lines[k]) /\ Flagged(lines[k])
         THEN ExtractFromOneBased(lines, k + 1,
                  [idx  |-> Append(acc.idx, k),
                   conf |-> Append(acc.conf, Confidence(lines[k]))])
         ELSE ExtractFromOneBased(lines, k + 1, acc)

RECURSIVE ExtractFromAllScores(_, _, _)
\* confidence_scores.append outside the if: one score per parsed line
ExtractFromAllScores(lines, k, acc) ==
    IF k > Len(lines) THEN acc
    ELSE IF Parses(lines[k])
         THEN ExtractFromAllScores(lines, k + 1,
                  [idx  |-> IF Flagged(lines[k]) THEN Append(acc.idx, k - 1)
                                                 ELSE acc.idx,
                   conf |-> Append(acc.conf, Confidence(lines[k]))])
         ELSE ExtractFromAllScores(lines, k + 1, acc)

RECURSIVE ExtractFrom(_, _, _)
\* for i, line_bytes in enumerate(result["lines"]): try ... except: pass
\* acc = [idx |-> anomaly_indices, conf |-> confidence_scores]
ExtractFrom(lines, k, acc) ==
    IF k > Len(lines) THEN acc
    ELSE IF Parses(lines[k]) /\ Flagged(lines[k])
         THEN ExtractFrom(lines, k + 1,
                  [idx  |-> Append(acc.idx, k - 1),
                   conf |-> Append(acc.conf, Confidence(lines[k]))])
         ELSE ExtractFrom(lines, k + 1, acc)

ExtractFlags(lines) == ExtractFrom(lines, 1, [idx |-> << >>, conf |-> << >>])

\* ------------------------------------------------------------------ state
VARIABLES
    rnse,               \* the installed scorer
    pc,                 \* position of each upload request in the handler
    user_id,            \* authenticated owner of each request
    file,               \* uploaded file of each request
    values,             \* parsed samples
    lines,              \* result["lines"]
    anomaly_indices,
    confidence_scores,
    outcome,            \* "pending", "ok" or the failure of the request
    stages,             \* stages each request has completed, in order
    response,           \* JSON body returned by a successful upload
    txn,                \* row written by a request's open transaction
    dbLock,             \* request holding the database write lock, 0 if none
    results,            \* committed rows of the results table
    clock,              \* database time
    got,                \* the last answer served to a read request
    localStorage,       \* the browser's item "auth"
    auth,               \* AuthProvider: const [auth, setAuth] = useState(null)
    phase,              \* "rendered": first render done, effect not yet run
    authMode,           \* App: const [authMode, setAuthMode] = useState(null)
    loading,            \* AuthModal: const [loading, setLoading]
    error,              \* AuthModal: const [error, setError]
    pending,            \* axios.post calls of login / signup awaiting an answer
    session,            \* auth data of the last successful login or signup
                        \* since the last logout
    authFrom,           \* what set auth last on this page: "initial" (useState),
                        \* "storage" (mount effect), "login", "signup", "logout"
    dashFile,           \* Dashboard: const [file, setFile] = useState(null)
    dashLoading,        \* Dashboard: const [loading, setLoading] = useState(false)
    dashResults,        \* Dashboard: const [results, setResults] = useState(null)
    history,            \* Dashboard: const [history, setHistory] = useState([])
    dashError,          \* Dashboard: const [error, setError] = useState('')
    fetches,            \* GET /api/results requests in flight, in sending order
    uploads,            \* POST /api/upload requests in flight, in sending order
    console             \* console.error('Failed to fetch history:') was written

vars == <<rnse, pc, user_id, file, values, lines, anomaly_indices,
          confidence_scores, outcome, stages, response, txn, dbLock,
          results, clock, got, localStorage, auth, phase, authMode,
          loading, error, pending, session, authFrom, dashFile, dashLoading,
          dashResults, history, dashError, fetches, uploads, console>>

reqVars == <<pc, user_id, file, values, lines, anomaly_indices,
             confidence_scores, outcome, stages, response>>

dbVars == <<txn, dbLock, results, clock>>

dashVars == <<dashFile, dashLoading, dashResults, history, dashError>>

netVars == <<fetches, uploads, console>>

clientVars == <<localStorage, auth, phase, authMode, loading, error, pending,
                session, authFrom, dashVars, netVars>>

\* ------------------------------------------------------- the results table
\* the owner taken from the request that authenticated last, not from the
\* request that writes the row
RowLastUser(r, id) ==
    LET last == CHOOSE q \in Reqs :
                    /\ pc[q] # "idle"
                    /\ \A q2 \in Reqs : pc[q2] # "idle" => q2 <= q
    IN  [id                |-> id,
         user_id           |-> user_id[last],
         filename          |-> file[r].filename,
         anomaly_indices   |-> anomaly_indices[r],
         confidence_scores |-> confidence_scores[r],
         original_data     |-> values[r],
         uploaded_at       |-> clock,
         req               |-> r]

\* a row of the results table; req (the request that wrote it) is not a
\* column, it only names the upload the row comes from
Row(r, id) ==
    [id                |-> id,
     user_id           |-> user_id[r],
     filename          |-> file[r].filename,
     anomaly_indices   |-> anomaly_indices[r],
     confidence_scores |-> confidence_scores[r],
     original_data     |-> values[r],
     uploaded_at       |-> clock,
     req               |-> r]

\* id (PK): the next rowid of the table
NextRowId(table) ==
    IF table = {} THEN 1
    ELSE (CHOOSE m \in {x.id : x \in table} :
              \A y \in table : y.id <= m) + 1

NotFound == [status |-> 404, record |-> Null]
Found(row) == [status |-> 200, record |-> row]

\* Get(owner, id): the record, or NotFound when it does not exist or
\* belongs to another owner
Get(table, owner, id) ==
    IF \E x \in table : x.id = id /\ x.user_id = owner
    THEN Found(CHOOSE x \in table : x.id = id /\ x.user_id = owner)
    ELSE NotFound

Summary(row) ==
    [id            |-> row.id,
     filename      |-> row.filename,
     anomaly_count |-> Len(row.anomaly_indices),
     uploaded_at   |-> row.uploaded_at]

RECURSIVE MostRecentFirst(_)
MostRecentFirst(rows) ==
    IF rows = {} THEN << >>
    ELSE LET newest == CHOOSE x \in rows :
                           \A y \in rows :
                               \/ y.uploaded_at < x.uploaded_at
                               \/ y.uploaded_at = x.uploaded_at /\ y.id <= x.id
         IN  <<Summary(newest)>> \o MostRecentFirst(rows \ {newest})

\* ListByOwner(owner): summaries of the owner's records, most recent first
ListByOwner(table, owner) ==
    MostRecentFirst({x \in table : x.user_id = owner})

RecordIds == 1..(MaxReqs + 1)

\* ------------------------------------------------ the downloaded CSV
\* a cell holding a word
StrCell(s) == [num |-> FALSE, v |-> 0, txt |-> s]

\* the decimal text of a number: sign, whole part, two decimals
ReprFloat(v) ==
    [neg   |-> v < 0,
     whole |-> (IF v < 0 THEN 0 - v ELSE v) \div 100,
     frac  |-> (IF v < 0 THEN 0 - v ELSE v) % 100]

\* float(text) of such a text
FloatOfText(t) == (IF t.neg THEN 0 - 1 ELSE 1) * (t.whole * 100 + t.frac)

\* a cell holding the text of a number
FloatCell(v) == [num |-> TRUE, v |-> FloatOfText(ReprFloat(v)), txt |-> ReprFloat(v)]

EncodeHeader ==
    <<StrCell("index"), StrCell("value"), StrCell("is_anomaly"), StrCell("confidence")>>

\* confidence of the flag at index i, 0 if i is not flagged
ConfidenceAt(rec, i) ==
    IF \E j \in DOMAIN rec.anomaly_indices : rec.anomaly_indices[j] = i
    THEN rec.confidence_scores[
             CHOOSE j \in DOMAIN rec.anomaly_indices : rec.anomaly_indices[j] = i]
    ELSE 0

\* the is_anomaly column looked up one position off the index column
EncodeRowShifted(rec, k) ==
    <<NumCell(k - 1),
      FloatCell(rec.original_data[k]),
      StrCell(IF \E j \in DOMAIN rec.anomaly_indices : rec.anomaly_indices[j] = k
              THEN "True" ELSE "False"),
      FloatCell(ConfidenceAt(rec, k))>>

\* the row of the k-th sample: index, value, is_anomaly, confidence
EncodeRow(rec, k) ==
    <<NumCell(k - 1),
      FloatCell(rec.original_data[k]),
      StrCell(IF \E j \in DOMAIN rec.anomaly_indices : rec.anomaly_indices[j] = k - 1
              THEN "True" ELSE "False"),
      FloatCell(ConfidenceAt(rec, k - 1))>>

\* Encode(AnalysisRecord): header, then one row per sample
Encode(rec) ==
    <<EncodeHeader>> \o [k \in 1..Len(rec.original_data) |-> EncodeRow(rec, k)]

\* ------------------------------------------------- the client's session
Calls  == 1..MaxCalls
Tokens == 1..MaxTokens

\* the address a user signs up with
EmailOf == <<"a@example.com", "b@example.com", "c@example.com", "d@example.com">>

\* res.data of a successful POST /api/auth/login or /api/auth/signup
AuthData(u, t) == [email |-> EmailOf[u], session_token |-> t]

\* the decimal text of a small number, and the number of a decimal text
Digits == <<"0", "1", "2", "3", "4", "5", "6", "7", "8", "9">>

NumText(n) == Digits[n + 1]

TextNum(t) == (CHOOSE i \in DOMAIN Digits : Digits[i] = t) - 1

\* localStorage.getItem("auth") of a missing item: null
NoItem == [present |-> FALSE, text |-> << >>]

\* JSON.stringify(authData), as the stored item
JSONstringify(a) ==
    [present |-> TRUE,
     text |-> <<"{", "email", ":", a.email, ",",
                "session_token", ":", NumText(a.session_token), "}">>]

\* JSON.parse(saved)
JSONparse(item) ==
    [email |-> item.text[4], session_token |-> TextNum(item.text[8])]

NoError == ""

AuthFailed == "Authentication failed"

NoCall == [mode |-> "none", user |-> 0, live |-> FALSE]

\* the modal that started the calls is unmounted: its setState calls are lost
Orphaned(calls) == [c \in Calls |-> [calls[c] EXCEPT !.live = FALSE]]

\* the user a session belongs to
UserOf(a) == CHOOSE u \in Owners : EmailOf[u] = a.email

\* useState(null) of file
NoFile == [filename |-> "", rows |-> << >>]

\* files the user can pick: one the backend accepts, one it rejects
ClientFiles == {MkFile(MinPoints, "num", 1, 1), MkFile(MinPoints - 1, "num", 1, 2)}

UploadFailed == "Upload failed"

\* axios.get(`${API_URL}/api/results`, Authorization: Bearer auth.session_token);
\* live: the Dashboard that sent it is still mounted
HistoryRequest(a, live) ==
    [auth |-> a, live |-> live, state |-> "sent", data |-> << >>]

\* axios.post(`${API_URL}/api/upload`, formData, Authorization: Bearer ...)
UploadRequest(a, f, live) ==
    [auth |-> a, file |-> f, live |-> live, state |-> "sent", data |-> Null]

Unmounted(reqs) == [k \in DOMAIN reqs |-> [reqs[k] EXCEPT !.live = FALSE]]

\* the requests in flight once request k is answered
Without(reqs, k) ==
    [j \in 1..(Len(reqs) - 1) |-> IF j < k THEN reqs[j] ELSE reqs[j + 1]]

InitDashboard ==
    /\ dashFile = NoFile
    /\ dashLoading = FALSE
    /\ dashResults = Null
    /\ history = << >>
    /\ dashError = NoError
    /\ fetches = << >>
    /\ uploads = << >>
    /\ console = FALSE

InitClient ==
    /\ InitDashboard
    /\ localStorage = NoItem
    /\ auth = Null
    /\ phase = "rendered"
    /\ authMode = "none"
    /\ loading = FALSE
    /\ error = NoError
    /\ pending = [c \in Calls |-> NoCall]
    /\ session = Null
    /\ authFrom = "initial"

\* ----------------------------------------------------------------- Init
NoAnswer ==
    [op |-> "none", owner |-> 0, id |-> 0, get |-> NotFound, list |-> << >>,
     csv |-> << >>]

InitRequests ==
    /\ pc = [r \in Reqs |-> "idle"]
    /\ user_id = [r \in Reqs |-> 0]
    /\ file = [r \in Reqs |-> EmptyFile]
    /\ values = [r \in Reqs |-> << >>]
    /\ lines = [r \in Reqs |-> << >>]
    /\ anomaly_indices = [r \in Reqs |-> << >>]
    /\ confidence_scores = [r \in Reqs |-> << >>]
    /\ outcome = [r \in Reqs |-> "pending"]
    /\ stages = [r \in Reqs |-> << >>]
    /\ response = [r \in Reqs |-> Null]

InitDb ==
    /\ txn = [r \in Reqs |-> Null]
    /\ dbLock = 0
    /\ results = {}
    /\ clock = 1
    /\ got = NoAnswer

Init ==
    /\ rnse \in StoreScorers
    /\ InitRequests
    /\ InitDb
    /\ InitClient

InitPair ==
    /\ rnse \in PairScorers
    /\ InitRequests
    /\ InitDb
    /\ InitClient

InitPipeline ==
    /\ rnse \in Importable
    /\ InitRequests
    /\ InitDb
    /\ InitClient

\* -------------------------------------------------- POST /api/upload
\* the request arrives: authenticated owner and uploaded file
Receive(r, o, f) ==
    /\ pc[r] = "idle"
    /\ \A q \in Reqs : q < r => pc[q] # "idle"
    /\ pc' = [pc EXCEPT ![r] = "received"]
    /\ user_id' = [user_id EXCEPT ![r] = o]
    /\ file' = [file EXCEPT ![r] = f]
    /\ UNCHANGED <<clientVars, rnse, values, lines, anomaly_indices, confidence_scores,
                   outcome, stages, response, got>>
    /\ UNCHANGED dbVars

\* the HTTPException is built but not raised: the handler goes on
DecodeNoRaise(r) ==
    /\ pc[r] = "received"
    /\ LET p == ParseValues(file[r].rows) IN
         IF p.err
         THEN /\ pc' = [pc EXCEPT ![r] = "failed"]
              /\ outcome' = [outcome EXCEPT ![r] = "MalformedInput"]
              /\ UNCHANGED <<values, stages>>
         ELSE /\ pc' = [pc EXCEPT ![r] = "parsed"]
              /\ values' = [values EXCEPT ![r] = p.vals]
              /\ stages' = [stages EXCEPT ![r] = Append(@, "Decode")]
              /\ outcome' = [outcome EXCEPT ![r] =
                     IF TooFew(p.vals) THEN "InsufficientData" ELSE @]
    /\ UNCHANGED <<clientVars, rnse, user_id, file, lines, anomaly_indices,
                   confidence_scores, response, got>>
    /\ UNCHANGED dbVars

\* Input Preparation: parse the CSV, validate the number of values
Decode(r) ==
    /\ pc[r] = "received"
    /\ LET p == ParseValues(file[r].rows) IN
         IF p.err
         THEN /\ pc' = [pc EXCEPT ![r] = "failed"]
              /\ outcome' = [outcome EXCEPT ![r] = "MalformedInput"]
              /\ UNCHANGED <<values, stages>>
         ELSE IF TooFew(p.vals)
         THEN /\ pc' = [pc EXCEPT ![r] = "failed"]
              /\ outcome' = [outcome EXCEPT ![r] = "InsufficientData"]
              /\ UNCHANGED <<values, stages>>
         ELSE /\ pc' = [pc EXCEPT ![r] = "parsed"]
              /\ values' = [values EXCEPT ![r] = p.vals]
              /\ stages' = [stages EXCEPT ![r] = Append(@, "Decode")]
              /\ UNCHANGED outcome
    /\ UNCHANGED <<clientVars, rnse, user_id, file, lines, anomaly_indices,
                   confidence_scores, response, got>>
    /\ UNCHANGED dbVars

\* Algorithm Invocation: rnse_run(seed64, T = len(values), params)
\* the scorer is handed the samples: its special tick follows the data
ScoreOnValues(r) ==
    /\ pc[r] = "parsed"
    /\ rnse # NoScorer
    /\ lines' = [lines EXCEPT ![r] =
                    rnse_run([rnse EXCEPT !.at = IF values[r][2] > 1010 THEN 1 ELSE 2],
                             Len(values[r]))]
    /\ pc' = [pc EXCEPT ![r] = "scored"]
    /\ stages' = [stages EXCEPT ![r] = Append(@, "Score")]
    /\ UNCHANGED <<clientVars, rnse, user_id, file, values, anomaly_indices,
                   confidence_scores, outcome, response, got>>
    /\ UNCHANGED dbVars

\* result = rnse_run(seed64=0x5EEDBEEFCAFE1234, T=len(values), params=params)
Score(r) ==
    /\ pc[r] = "parsed"
    /\ rnse # NoScorer
    /\ lines' = [lines EXCEPT ![r] = rnse_run(rnse, Len(values[r]))]
    /\ pc' = [pc EXCEPT ![r] = "scored"]
    /\ stages' = [stages EXCEPT ![r] = Append(@, "Score")]
    /\ UNCHANGED <<clientVars, rnse, user_id, file, values, anomaly_indices,
                   confidence_scores, outcome, response, got>>
    /\ UNCHANGED dbVars

\* mock mode: without rnse_core the handler scores every tick as zero
ScoreMock(r) ==
    /\ pc[r] = "parsed"
    /\ rnse = NoScorer
    /\ lines' = [lines EXCEPT ![r] = [i \in 1..Len(values[r]) |-> DLine(0)]]
    /\ pc' = [pc EXCEPT ![r] = "scored"]
    /\ stages' = [stages EXCEPT ![r] = Append(@, "Score")]
    /\ UNCHANGED <<clientVars, rnse, user_id, file, values, anomaly_indices,
                   confidence_scores, outcome, response, got>>
    /\ UNCHANGED dbVars

\* Algorithm Invocation with rnse_run = None: the scorer is unavailable
ScoreUnavailable(r) ==
    /\ pc[r] = "parsed"
    /\ rnse = NoScorer
    /\ pc' = [pc EXCEPT ![r] = "failed"]
    /\ outcome' = [outcome EXCEPT ![r] = "ScorerUnavailable"]
    /\ UNCHANGED <<clientVars, rnse, user_id, file, values, lines, anomaly_indices,
                   confidence_scores, stages, response, got>>
    /\ UNCHANGED dbVars

\* Anomaly Detection: extract divergence scores, flag anomalies
Extract(r) ==
    /\ pc[r] = "scored"
    /\ LET flags == ExtractFlags(lines[r]) IN
         /\ anomaly_indices' = [anomaly_indices EXCEPT ![r] = flags.idx]
         /\ confidence_scores' = [confidence_scores EXCEPT ![r] = flags.conf]
    /\ pc' = [pc EXCEPT ![r] = "extracted"]
    /\ stages' = [stages EXCEPT ![r] = Append(@, "Extract")]
    /\ UNCHANGED <<clientVars, rnse, user_id, file, values, lines, outcome, response, got>>
    /\ UNCHANGED dbVars

\* the row is written in two statements on an autocommit connection: the
\* INSERT without the scores is visible before the scores are added
InsertPartial(r) ==
    /\ pc[r] = "extracted"
    /\ dbLock = 0
    /\ txn' = [txn EXCEPT ![r] = Row(r, NextRowId(results))]
    /\ results' = results \cup
           {[Row(r, NextRowId(results)) EXCEPT !.anomaly_indices = << >>,
                                              !.confidence_scores = << >>]}
    /\ dbLock' = r
    /\ clock' = clock + 1
    /\ pc' = [pc EXCEPT ![r] = "inserted"]
    /\ UNCHANGED <<clientVars, rnse, user_id, file, values, lines, anomaly_indices,
                   confidence_scores, outcome, stages, response, got>>

\* the id is taken without the write lock
InsertNoLock(r) ==
    /\ pc[r] = "extracted"
    /\ txn' = [txn EXCEPT ![r] = Row(r, NextRowId(results))]
    /\ dbLock' = r
    /\ clock' = clock + 1
    /\ pc' = [pc EXCEPT ![r] = "inserted"]
    /\ UNCHANGED <<clientVars, rnse, user_id, file, values, lines, anomaly_indices,
                   confidence_scores, outcome, stages, response, results, got>>

\* the INSERT runs on an autocommit connection: the row is visible at once
InsertAutocommit(r) ==
    /\ pc[r] = "extracted"
    /\ dbLock = 0
    /\ txn' = [txn EXCEPT ![r] = Row(r, NextRowId(results))]
    /\ results' = results \cup {Row(r, NextRowId(results))}
    /\ dbLock' = r
    /\ clock' = clock + 1
    /\ pc' = [pc EXCEPT ![r] = "inserted"]
    /\ UNCHANGED <<clientVars, rnse, user_id, file, values, lines, anomaly_indices,
                   confidence_scores, outcome, stages, response, got>>

\* Results Storage: c.execute(INSERT INTO results ...) inside the
\* connection's transaction; the row takes the next id and the write lock
Insert(r) ==
    /\ pc[r] = "extracted"
    /\ dbLock = 0
    /\ txn' = [txn EXCEPT ![r] = Row(r, NextRowId(results))]
    /\ dbLock' = r
    /\ clock' = clock + 1
    /\ pc' = [pc EXCEPT ![r] = "inserted"]
    /\ UNCHANGED <<clientVars, rnse, user_id, file, values, lines, anomaly_indices,
                   confidence_scores, outcome, stages, response, results, got>>

\* INSERT OR REPLACE keyed by (user_id, filename): an earlier result of the
\* same file is overwritten
CommitReplace(r) ==
    /\ pc[r] = "inserted"
    /\ results' =
           {x \in results : ~(x.user_id = txn[r].user_id
                               /\ x.filename = txn[r].filename)}
               \cup {txn[r]}
    /\ txn' = [txn EXCEPT ![r] = Null]
    /\ dbLock' = IF dbLock = r THEN 0 ELSE dbLock
    /\ pc' = [pc EXCEPT ![r] = "done"]
    /\ outcome' = [outcome EXCEPT ![r] = "ok"]
    /\ stages' = [stages EXCEPT ![r] = Append(@, "Create")]
    /\ response' = [response EXCEPT ![r] =
           [result_id         |-> txn[r].id,
            filename          |-> file[r].filename,
            anomaly_count     |-> Len(anomaly_indices[r]),
            anomaly_indices   |-> anomaly_indices[r],
            confidence_scores |-> confidence_scores[r]]]
    /\ UNCHANGED <<clientVars, rnse, user_id, file, values, lines, anomaly_indices,
                   confidence_scores, clock, got>>

\* Results Storage: conn.commit(), then the JSON response
Commit(r) ==
    /\ pc[r] = "inserted"
    /\ results' = results \cup {txn[r]}
    /\ txn' = [txn EXCEPT ![r] = Null]
    /\ dbLock' = IF dbLock = r THEN 0 ELSE dbLock
    /\ pc' = [pc EXCEPT ![r] = "done"]
    /\ outcome' = [outcome EXCEPT ![r] = "ok"]
    /\ stages' = [stages EXCEPT ![r] = Append(@, "Create")]
    /\ response' = [response EXCEPT ![r] =
           [result_id         |-> txn[r].id,
            filename          |-> file[r].filename,
            anomaly_count     |-> Len(anomaly_indices[r]),
            anomaly_indices   |-> anomaly_indices[r],
            confidence_scores |-> confidence_scores[r]]]
    /\ UNCHANGED <<clientVars, rnse, user_id, file, values, lines, anomaly_indices,
                   confidence_scores, clock, got>>

\* the request is cancelled before conn.commit(): the handler's locals and
\* the connection go away, and the open transaction is rolled back
Abort(r) ==
    /\ pc[r] \in {"received", "parsed", "scored", "extracted", "inserted"}
    /\ pc' = [pc EXCEPT ![r] = "aborted"]
    /\ outcome' = [outcome EXCEPT ![r] = "aborted"]
    /\ values' = [values EXCEPT ![r] = << >>]
    /\ lines' = [lines EXCEPT ![r] = << >>]
    /\ anomaly_indices' = [anomaly_indices EXCEPT ![r] = << >>]
    /\ confidence_scores' = [confidence_scores EXCEPT ![r] = << >>]
    /\ stages' = [stages EXCEPT ![r] = << >>]
    /\ txn' = [txn EXCEPT ![r] = Null]
    /\ dbLock' = IF dbLock = r THEN 0 ELSE dbLock
    /\ UNCHANGED <<clientVars, rnse, user_id, file, response, results, clock, got>>

\* --------------------------- GET /api/results/{result_id}/download
Download(o, id) ==
    /\ got' = [op |-> "get", owner |-> o, id |-> id,
               get |-> Get(results, o, id), list |-> << >>,
               csv |-> IF Get(results, o, id).status = 200
                       THEN Encode(Get(results, o, id).record)
                       ELSE << >>]
    /\ UNCHANGED <<clientVars, rnse, txn, dbLock, results, clock>>
    /\ UNCHANGED reqVars

\* ------------------------------------------------- GET /api/results
History(o) ==
    /\ got' = [op |-> "list", owner |-> o, id |-> 0,
               get |-> NotFound, list |-> ListByOwner(results, o),
               csv |-> << >>]
    /\ UNCHANGED <<clientVars, rnse, txn, dbLock, results, clock>>
    /\ UNCHANGED reqVars

\* ------------------------------------------------------- React client
serverVars == <<rnse, reqVars, dbVars, got>>

\* the Dashboard is rendered: if (!auth) ... else return <Dashboard />
DashboardShown == phase = "ready" /\ auth # Null

\* the Dashboard mounts (useState initial values) and its effect runs
\* fetchHistory() with the auth of that render
DashboardMounts(a) ==
    /\ Len(fetches) < MaxFetches
    /\ dashFile' = NoFile
    /\ dashLoading' = FALSE
    /\ dashResults' = Null
    /\ history' = << >>
    /\ dashError' = NoError
    /\ fetches' = Append(fetches, HistoryRequest(a, TRUE))
    /\ UNCHANGED <<uploads, console>>

\* the Dashboard is unmounted: its state is gone, the requests it started
\* stay in flight and their setState calls are lost
DashboardUnmounts ==
    /\ dashFile' = NoFile
    /\ dashLoading' = FALSE
    /\ dashResults' = Null
    /\ history' = << >>
    /\ dashError' = NoError
    /\ fetches' = Unmounted(fetches)
    /\ uploads' = Unmounted(uploads)
    /\ UNCHANGED console

\* useEffect(() => { saved = getItem("auth"); if (saved) setAuth(parse) }, [])
MountEffect ==
    /\ phase = "rendered"
    /\ phase' = "ready"
    /\ IF localStorage.present
          THEN /\ auth' = JSONparse(localStorage)
               /\ authFrom' = "storage"
               /\ DashboardMounts(JSONparse(localStorage))
          ELSE UNCHANGED <<auth, authFrom, dashVars, netVars>>
    /\ UNCHANGED <<localStorage, authMode, loading, error, pending, session>>
    /\ UNCHANGED serverVars

\* LandingPage: Sign Up, Log In and Get Started all call onSignUp
OpenModal ==
    /\ phase = "ready"
    /\ auth = Null
    /\ authMode = "none"
    /\ authMode' = "signup"
    /\ UNCHANGED <<localStorage, auth, phase, loading, error, pending,
                   session, authFrom, dashVars, netVars>>
    /\ UNCHANGED serverVars

\* onClose: setAuthMode(null), the modal and its state are unmounted
CloseModal ==
    /\ phase = "ready"
    /\ auth = Null
    /\ authMode # "none"
    /\ authMode' = "none"
    /\ loading' = FALSE
    /\ error' = NoError
    /\ pending' = Orphaned(pending)
    /\ UNCHANGED <<localStorage, auth, phase, session, authFrom, dashVars, netVars>>
    /\ UNCHANGED serverVars

\* handleSubmit up to the await: the submit button is disabled while loading
Submit(c, u) ==
    /\ phase = "ready"
    /\ auth = Null
    /\ authMode # "none"
    /\ ~loading
    /\ pending[c] = NoCall
    /\ error' = NoError
    /\ loading' = TRUE
    /\ pending' = [pending EXCEPT ![c] = [mode |-> authMode, user |-> u, live |-> TRUE]]
    /\ UNCHANGED <<localStorage, auth, phase, authMode, session, authFrom,
                   dashVars, netVars>>
    /\ UNCHANGED serverVars

\* login / signup after the await, then onSuccess() and setLoading(false);
\* App renders the Dashboard when auth was null
AuthSucceeds(c, t) ==
    /\ pending[c] # NoCall
    /\ localStorage' = JSONstringify(AuthData(pending[c].user, t))
    /\ auth' = AuthData(pending[c].user, t)
    /\ session' = AuthData(pending[c].user, t)
    /\ authFrom' = pending[c].mode
    /\ authMode' = "none"
    /\ loading' = FALSE
    /\ error' = NoError
    /\ pending' = Orphaned([pending EXCEPT ![c] = NoCall])
    /\ IF auth = Null
          THEN DashboardMounts(AuthData(pending[c].user, t))
          ELSE UNCHANGED <<dashVars, netVars>>
    /\ UNCHANGED phase
    /\ UNCHANGED serverVars

\* the rejected request still stores what the server sent back
AuthFailsStores(c) ==
    /\ pending[c] # NoCall
    /\ pending' = [pending EXCEPT ![c] = NoCall]
    /\ localStorage' = JSONstringify(AuthData(pending[c].user, 1))
    /\ IF pending[c].live
          THEN /\ error' = AuthFailed
               /\ loading' = FALSE
          ELSE UNCHANGED <<error, loading>>
    /\ UNCHANGED <<auth, phase, authMode, session, authFrom, dashVars, netVars>>
    /\ UNCHANGED serverVars

\* axios.post rejects: catch (err) { setError(...) } finally { setLoading(false) }
AuthFails(c) ==
    /\ pending[c] # NoCall
    /\ pending' = [pending EXCEPT ![c] = NoCall]
    /\ IF pending[c].live
          THEN /\ error' = AuthFailed
               /\ loading' = FALSE
          ELSE UNCHANGED <<error, loading>>
    /\ UNCHANGED <<localStorage, auth, phase, authMode, session, authFrom,
                   dashVars, netVars>>
    /\ UNCHANGED serverVars

\* the in-memory auth is cleared, the stored item is left behind
LogoutKeepsItem ==
    /\ DashboardShown
    /\ auth' = Null
    /\ session' = Null
    /\ authFrom' = "logout"
    /\ DashboardUnmounts
    /\ UNCHANGED <<localStorage, phase, authMode, loading, error, pending>>
    /\ UNCHANGED serverVars

\* logout: localStorage.removeItem("auth"); setAuth(null)
Logout ==
    /\ DashboardShown
    /\ localStorage' = NoItem
    /\ auth' = Null
    /\ session' = Null
    /\ authFrom' = "logout"
    /\ DashboardUnmounts
    /\ UNCHANGED <<phase, authMode, loading, error, pending>>
    /\ UNCHANGED serverVars

\* the page is reloaded: root.render mounts AuthProvider and App afresh, the
\* requests of the old page are dropped, localStorage survives
Reload ==
    /\ phase = "ready"
    /\ phase' = "rendered"
    /\ auth' = Null
    /\ authMode' = "none"
    /\ loading' = FALSE
    /\ error' = NoError
    /\ pending' = [c \in Calls |-> NoCall]
    /\ authFrom' = "initial"
    /\ dashFile' = NoFile
    /\ dashLoading' = FALSE
    /\ dashResults' = Null
    /\ history' = << >>
    /\ dashError' = NoError
    /\ fetches' = << >>
    /\ uploads' = << >>
    /\ console' = FALSE
    /\ UNCHANGED <<localStorage, session>>
    /\ UNCHANGED serverVars

\* ---------------------------------------------------------- Dashboard
authVars == <<localStorage, auth, phase, authMode, loading, error, pending,
              session, authFrom>>

backendRest == <<rnse, reqVars, txn, dbLock, got>>

\* onChange={(e) => setFile(e.target.files?.[0] || null)}, disabled={loading}
SelectFile(f) ==
    /\ DashboardShown
    /\ ~dashLoading
    /\ dashFile' = f
    /\ UNCHANGED <<dashLoading, dashResults, history, dashError, netVars>>
    /\ UNCHANGED authVars
    /\ UNCHANGED serverVars

\* the submit button is not disabled while a request is in flight
HandleUploadAnyTime ==
    /\ DashboardShown
    /\ dashFile # NoFile
    /\ Len(uploads) + Cardinality(results) < MaxStored
    /\ dashError' = NoError
    /\ dashLoading' = TRUE
    /\ uploads' = Append(uploads, UploadRequest(auth, dashFile, TRUE))
    /\ UNCHANGED <<dashFile, dashResults, history, fetches, console>>
    /\ UNCHANGED authVars
    /\ UNCHANGED serverVars

\* handleUpload up to the await; the submit button has disabled={!file || loading}
HandleUpload ==
    /\ DashboardShown
    /\ ~(dashFile = NoFile \/ dashLoading)
    /\ Len(uploads) + Cardinality(results) < MaxStored
    /\ IF dashFile = NoFile
          THEN UNCHANGED <<dashVars, netVars>>
          ELSE /\ dashError' = NoError
               /\ dashLoading' = TRUE
               /\ uploads' = Append(uploads, UploadRequest(auth, dashFile, TRUE))
               /\ UNCHANGED <<dashFile, dashResults, history, fetches, console>>
    /\ UNCHANGED authVars
    /\ UNCHANGED serverVars

\* POST /api/upload reaches the backend: parse, score, extract, INSERT, commit
ServeUpload(k) ==
    /\ k \in DOMAIN uploads
    /\ uploads[k].state = "sent"
    /\ rnse # NoScorer
    /\ LET p == ParseValues(uploads[k].file.rows) IN
         IF p.err \/ TooFew(p.vals)
         THEN /\ uploads' = [uploads EXCEPT ![k].state = "failed"]
              /\ UNCHANGED <<results, clock>>
         ELSE LET flags == ExtractFlags(rnse_run(rnse, Len(p.vals)))
                  id    == NextRowId(results)
              IN  /\ results' = results \cup
                        {[id                |-> id,
                          user_id           |-> UserOf(uploads[k].auth),
                          filename          |-> uploads[k].file.filename,
                          anomaly_indices   |-> flags.idx,
                          confidence_scores |-> flags.conf,
                          original_data     |-> p.vals,
                          uploaded_at       |-> clock,
                          req               |-> 0]}
                  /\ clock' = clock + 1
                  /\ uploads' = [uploads EXCEPT
                        ![k].state = "ok",
                        ![k].data = [result_id         |-> id,
                                     filename          |-> uploads[k].file.filename,
                                     anomaly_count     |-> Len(flags.idx),
                                     anomaly_indices   |-> flags.idx,
                                     confidence_scores |-> flags.conf]]
    /\ UNCHANGED <<dashVars, fetches, console>>
    /\ UNCHANGED authVars
    /\ UNCHANGED backendRest

\* handleUpload after the await: setResults(res.data); setFile(null);
\* fetchHistory(); finally setLoading(false)
UploadSucceeds(k) ==
    /\ k \in DOMAIN uploads
    /\ uploads[k].state = "ok"
    /\ Len(fetches) < MaxFetches
    /\ IF uploads[k].live
          THEN /\ dashResults' = uploads[k].data
               /\ dashFile' = NoFile
               /\ dashLoading' = FALSE
          ELSE UNCHANGED <<dashResults, dashFile, dashLoading>>
    /\ fetches' = Append(fetches, HistoryRequest(uploads[k].auth, uploads[k].live))
    /\ uploads' = Without(uploads, k)
    /\ UNCHANGED <<history, dashError, console>>
    /\ UNCHANGED authVars
    /\ UNCHANGED serverVars

\* the error path also drops the displayed results
UploadFailsClears(k) ==
    /\ k \in DOMAIN uploads
    /\ uploads[k].state = "failed"
    /\ IF uploads[k].live
          THEN /\ dashError' = UploadFailed
               /\ dashLoading' = FALSE
               /\ dashResults' = Null
          ELSE UNCHANGED <<dashError, dashLoading, dashResults>>
    /\ uploads' = Without(uploads, k)
    /\ UNCHANGED <<dashFile, history, fetches, console>>
    /\ UNCHANGED authVars
    /\ UNCHANGED serverVars

\* catch (err) { setError(detail || 'Upload failed') } finally { setLoading(false) }
UploadFails(k) ==
    /\ k \in DOMAIN uploads
    /\ uploads[k].state = "failed"
    /\ IF uploads[k].live
          THEN /\ dashError' = UploadFailed
               /\ dashLoading' = FALSE
          ELSE UNCHANGED <<dashError, dashLoading>>
    /\ uploads' = Without(uploads, k)
    /\ UNCHANGED <<dashFile, dashResults, history, fetches, console>>
    /\ UNCHANGED authVars
    /\ UNCHANGED serverVars

\* GET /api/results reaches the backend: the owner's list at that moment
ServeHistory(k) ==
    /\ k \in DOMAIN fetches
    /\ fetches[k].state = "sent"
    /\ fetches' = [fetches EXCEPT
          ![k].state = "ok",
          ![k].data = ListByOwner(results, UserOf(fetches[k].auth))]
    /\ UNCHANGED <<dashVars, uploads, console>>
    /\ UNCHANGED authVars
    /\ UNCHANGED serverVars

\* the request or its answer is lost: axios.get rejects
LoseHistory(k) ==
    /\ k \in DOMAIN fetches
    /\ fetches[k].state = "sent"
    /\ fetches' = [fetches EXCEPT ![k].state = "failed"]
    /\ UNCHANGED <<dashVars, uploads, console>>
    /\ UNCHANGED authVars
    /\ UNCHANGED serverVars

\* fetchHistory after the await: setHistory(res.data.results)
FetchSucceeds(k) ==
    /\ k \in DOMAIN fetches
    /\ fetches[k].state = "ok"
    /\ history' = IF fetches[k].live THEN fetches[k].data ELSE history
    /\ fetches' = Without(fetches, k)
    /\ UNCHANGED <<dashFile, dashLoading, dashResults, dashError, uploads, console>>
    /\ UNCHANGED authVars
    /\ UNCHANGED serverVars

\* catch (err) { console.error('Failed to fetch history:', err) }
FetchFails(k) ==
    /\ k \in DOMAIN fetches
    /\ fetches[k].state = "failed"
    /\ console' = TRUE
    /\ fetches' = Without(fetches, k)
    /\ UNCHANGED <<dashVars, uploads>>
    /\ UNCHANGED authVars
    /\ UNCHANGED serverVars

\* ------------------------------------------------------ specifications
Next ==
    \/ \E r \in Reqs, o \in Owners, f \in StoreFiles : Receive(r, o, f)
    \/ \E r \in Reqs : Decode(r)
    \/ \E r \in Reqs : Score(r)
    \/ \E r \in Reqs : Extract(r)
    \/ \E r \in Reqs : Insert(r)
    \/ \E r \in Reqs : Commit(r)
    \/ \E r \in Reqs : Abort(r)
    \/ \E o \in Owners, id \in RecordIds : Download(o, id)
    \/ \E o \in Owners : History(o)

Spec == Init /\ [][Next]_vars

\* one upload at a time, over the whole range of files and scorers
NextPipeline ==
    \/ \E o \in Owners, f \in Files : Receive(1, o, f)
    \/ Decode(1)
    \/ Score(1)
    \/ ScoreUnavailable(1)
    \/ Extract(1)
    \/ Insert(1)
    \/ Commit(1)
    \/ Abort(1)
    \/ \E o \in Owners, id \in RecordIds : Download(o, id)
    \/ \E o \in Owners : History(o)

SpecPipeline == InitPipeline /\ [][NextPipeline]_vars

\* uploads side by side under one installed scorer
NextPair ==
    \/ \E r \in Reqs, o \in Owners, f \in PairFiles : Receive(r, o, f)
    \/ \E r \in Reqs : Decode(r)
    \/ \E r \in Reqs : Score(r)
    \/ \E r \in Reqs : Extract(r)
    \/ \E r \in Reqs : Insert(r)
    \/ \E r \in Reqs : Commit(r)

SpecPair == InitPair /\ [][NextPair]_vars

\* the client alone: one browser tab against the authentication endpoints
NextClient ==
    \/ MountEffect
    \/ OpenModal
    \/ CloseModal
    \/ \E c \in Calls, u \in Owners : Submit(c, u)
    \/ \E c \in Calls, t \in Tokens : AuthSucceeds(c, t)
    \/ \E c \in Calls : AuthFails(c)
    \/ Logout
    \/ Reload
    \/ \E k \in 1..MaxFetches : ServeHistory(k)
    \/ \E k \in 1..MaxFetches : LoseHistory(k)
    \/ \E k \in 1..MaxFetches : FetchSucceeds(k)
    \/ \E k \in 1..MaxFetches : FetchFails(k)

SpecClient == Init /\ [][NextClient]_vars

\* one user's sessions on the dashboard: uploads and history fetches
NextDashboard ==
    \/ MountEffect
    \/ OpenModal
    \/ Submit(1, 1)
    \/ AuthSucceeds(1, 1)
    \/ Logout
    \/ Reload
    \/ \E f \in ClientFiles \cup {NoFile} : SelectFile(f)
    \/ HandleUpload
    \/ \E k \in 1..MaxStored : ServeUpload(k)
    \/ \E k \in 1..MaxStored : UploadSucceeds(k)
    \/ \E k \in 1..MaxStored : UploadFails(k)
    \/ \E k \in 1..MaxFetches : ServeHistory(k)
    \/ \E k \in 1..MaxFetches : LoseHistory(k)
    \/ \E k \in 1..MaxFetches : FetchSucceeds(k)
    \/ \E k \in 1..MaxFetches : FetchFails(k)

SpecDashboard == Init /\ [][NextDashboard]_vars

\* ---------------------------------------------------------------- helpers
Range(seq) == {seq[i] : i \in DOMAIN seq}

HasStage(r, s) == s \in Range(stages[r])

DecodeRan(r) == pc[r] \in {"parsed", "scored", "extracted", "inserted", "done", "failed"}

Accepted(r) ==
    \/ pc[r] \in {"parsed", "scored", "extracted", "inserted", "done"}
    \/ pc[r] = "failed" /\ outcome[r] = "ScorerUnavailable"

ParsedCount(ls) == Cardinality({k \in DOMAIN ls : Parses(ls[k])})

\* ------------------------------------------------------------------- C1
\* C1: Extract flags index i if and only if the confidence of score line i
\* is strictly greater than the threshold: a confidence equal to the
\* threshold is never flagged, a greater one always is (a line that does
\* not parse has no confidence and is not flagged).
C1_StrictThreshold ==
    \A r \in Reqs : HasStage(r, "Extract") =>
        \A k \in DOMAIN lines[r] :
            ((k - 1) \in Range(anomaly_indices[r]))
                <=> (Parses(lines[r][k]) /\ Confidence(lines[r][k]) > Threshold)

C1_Witness ==
    \E r \in Reqs :
        /\ HasStage(r, "Extract")
        /\ \E k \in DOMAIN lines[r] :
               /\ Parses(lines[r][k])
               /\ Confidence(lines[r][k]) = Threshold
               /\ (k - 1) \notin Range(anomaly_indices[r])
        /\ \E k \in DOMAIN lines[r] :
               /\ Parses(lines[r][k])
               /\ Confidence(lines[r][k]) = Threshold + 1
               /\ (k - 1) \in Range(anomaly_indices[r])

TwoColumns(row) == Len(row) > 1

DataRows(rows) == IF Len(rows) > 1 THEN SubSeq(rows, 2, Len(rows)) ELSE << >>

HasBadRow(rows) ==
    \E i \in DOMAIN DataRows(rows) :
        TwoColumns(DataRows(rows)[i]) /\ ~DataRows(rows)[i][2].num

SamplesOf(rows) ==
    LET kept == SelectSeq(DataRows(rows), TwoColumns)
    IN  [i \in DOMAIN kept |-> kept[i][2].v]

\* C4: an upload whose decoded series has fewer than 10 samples is
\* rejected with InsufficientData, and one whose decoded series has at
\* least 10 samples is accepted: 9 samples fail, exactly 10 succeed.
C4_MinimumLength ==
    \A r \in Reqs :
        (DecodeRan(r) /\ ~HasBadRow(file[r].rows)) =>
            LET n == Len(SamplesOf(file[r].rows)) IN
            /\ n < MinPoints => (pc[r] = "failed" /\ outcome[r] = "InsufficientData")
            /\ n >= MinPoints => (Accepted(r) /\ Len(values[r]) = n)

C4_Witness ==
    \E r \in Reqs :
        /\ Accepted(r)
        /\ ~HasBadRow(file[r].rows)
        /\ Len(SamplesOf(file[r].rows)) = MinPoints
        /\ Len(values[r]) = MinPoints

\* ------------------------------------------------------------------- C5
\* C5 (as claimed): a data row whose value fails numeric parsing is
\* skipped; the decode fails only if fewer than 10 samples remain.
C5_Original ==
    \A r \in Reqs :
        DecodeRan(r) =>
            LET n == Len(SamplesOf(file[r].rows)) IN
            /\ n >= MinPoints => Accepted(r)
            /\ n < MinPoints => outcome[r] = "InsufficientData"

\* C5 (amended): Decode skips a data row that has fewer than two columns
\* and continues with the remaining rows; a row whose value column fails
\* numeric parsing aborts the whole decode (ValueError, no series); without
\* such a row the decode fails only if fewer than 10 samples remain.
C5_SkipsShortRowsOnly ==
    \A r \in Reqs :
        DecodeRan(r) =>
            IF HasBadRow(file[r].rows)
            THEN pc[r] = "failed" /\ outcome[r] = "MalformedInput"
            ELSE LET s == SamplesOf(file[r].rows) IN
                 /\ Len(s) >= MinPoints => (Accepted(r) /\ values[r] = s)
                 /\ Len(s) < MinPoints => outcome[r] = "InsufficientData"

C5_Witness ==
    \E r \in Reqs :
        /\ HasBadRow(file[r].rows)
        /\ Len(SamplesOf(file[r].rows)) >= MinPoints
        /\ pc[r] = "failed"
        /\ outcome[r] = "MalformedInput"

\* ------------------------------------------------------------------- C3
\* C3: after any sequence of uploads, Get(ownerA, id) for a record that
\* another owner uploaded answers NotFound, the very answer given for an id
\* that does not exist.
C3_OwnershipIsolation ==
    /\ \A x \in results : \A o \in Owners :
          o # user_id[x.req] =>
              LET missing == Get(results, o, NextRowId(results)) IN
              /\ missing.status = 404
              /\ Get(results, o, x.id) = missing
    /\ (got.op = "get" /\ got.get.status = 200)
          => user_id[got.get.record.req] = got.owner

C3_Witness ==
    /\ got.op = "get"
    /\ got.get = NotFound
    /\ \E x \in results : x.id = got.id /\ user_id[x.req] # got.owner
    /\ \E x \in results : user_id[x.req] = got.owner

\* ------------------------------------------------------------------- C6
FailedDecode(r) == outcome[r] \in {"MalformedInput", "InsufficientData"}

\* C6: a record exists only for an upload whose Decode, Score and Extract
\* completed, in that order, before its Create; an upload that fails with
\* MalformedInput or InsufficientData leaves the results table and the open
\* transactions as they were, and the failed request takes no further step.
C6_CreateOnlyAfterPipeline ==
    /\ [](\A r \in Reqs :
            /\ (txn[r] # Null) =>
                   (stages[r] = <<"Decode", "Score", "Extract">> /\ ~FailedDecode(r))
            /\ (\E x \in results : x.req = r) =>
                   (stages[r] = <<"Decode", "Score", "Extract", "Create">>
                        /\ outcome[r] = "ok")
            /\ FailedDecode(r) =>
                   (stages[r] = << >> /\ txn[r] = Null
                        /\ \A x \in results : x.req # r))
    /\ [][\A r \in Reqs :
            /\ (FailedDecode(r)' /\ ~FailedDecode(r)) =>
                   (results' = results /\ txn' = txn /\ dbLock' = dbLock)
            /\ FailedDecode(r) =>
                   (pc'[r] = pc[r] /\ outcome'[r] = outcome[r]
                        /\ stages'[r] = stages[r])]_vars

C6_Witness ==
    \E r, q \in Reqs :
        /\ FailedDecode(r)
        /\ pc[r] = "failed"
        /\ pc[q] = "done"
        /\ results = {x \in results : x.req = q}
        /\ results # {}

\* ------------------------------------------------------------------- C7
\* a row as its upload computed it, its Create finished
Complete(x) ==
    /\ pc[x.req] = "done"
    /\ x.id = response[x.req].result_id
    /\ x.user_id = user_id[x.req]
    /\ x.filename = file[x.req].filename
    /\ x.original_data = values[x.req]
    /\ x.anomaly_indices = anomaly_indices[x.req]
    /\ x.confidence_scores = confidence_scores[x.req]
    /\ x.uploaded_at \in 1..(clock - 1)

\* C7: in every interleaving of uploads and reads, a Get or ListByOwner
\* either does not see a record or sees it complete (owner, filename,
\* series, flags, timestamp), its Create finished; no partial row is seen.
C7_AtomicCreate ==
    /\ \A o \in Owners, id \in RecordIds :
          LET g == Get(results, o, id) IN
          g.status = 200 => Complete(g.record)
    /\ \A o \in Owners :
          \A s \in Range(ListByOwner(results, o)) :
              \E x \in results : Complete(x) /\ Summary(x) = s /\ x.user_id = o
    /\ got.get.status = 200 => Complete(got.get.record)
    /\ \A s \in Range(got.list) :
          \E x \in results : Complete(x) /\ Summary(x) = s

C7_Witness ==
    /\ \E r \in Reqs : pc[r] = "inserted" /\ txn[r] # Null
    /\ \E r \in Reqs : pc[r] = "done"
    /\ got.op = "get"
    /\ got.get.status = 200
    /\ got.get.record.anomaly_indices # << >>

\* ------------------------------------------------------------------- C8
\* C8: under every interleaving of uploads, no two records of the results
\* table share an id; two concurrent uploads of one owner give two records
\* with distinct ids.
C8_UniqueIds ==
    \A x, y \in results : x.id = y.id => x = y

\* request 1 arrived first and was still in flight when request 2 committed
C8_Witness ==
    \E x, y \in results :
        /\ x.req = 1 /\ y.req = 2
        /\ x.user_id = y.user_id
        /\ y.uploaded_at < x.uploaded_at
        /\ x.id # y.id

\* ------------------------------------------------------------------- C9
\* C9: an upload cancelled before its commit leaves no record: no row of it
\* is in the results table, so that no Get or ListByOwner shows one, and
\* no answer already served carries one.
C9_NoRecordAfterCancel ==
    \A r \in Reqs :
        outcome[r] = "aborted" =>
            /\ txn[r] = Null
            /\ \A x \in results : x.req # r
            /\ got.get.status = 200 => got.get.record.req # r

\* an INSERT was rolled back: more rows were written than are committed
\* or pending
C9_Witness ==
    /\ \E r \in Reqs : outcome[r] = "aborted"
    /\ dbLock = 0
    /\ clock - 1 > Cardinality(results)
    /\ results # {}

\* ------------------------------------------------------------------ C10
\* C10: once Create has returned the id of a record, every later Get by
\* its owner returns that same record (owner, filename, series, flags,
\* timestamp), whatever uploads and reads happen in between.
C10_WriteOnce ==
    [][\A r \in Reqs :
          pc[r] = "done" =>
              LET g == Get(results, user_id[r], response[r].result_id) IN
              /\ g.status = 200
              /\ g.record.req = r
              /\ Get(results', user_id[r], response[r].result_id) = g]_vars

C10_Witness ==
    \E x, y \in results :
        /\ x.uploaded_at < y.uploaded_at
        /\ x.user_id = y.user_id
        /\ x.filename = y.filename
        /\ got.op = "get"
        /\ got.owner = x.user_id
        /\ got.id = x.id
        /\ got.get = Found(x)

\* ------------------------------------------------------------------ C11
\* divergence / normalizationConstant clamped to [0.0, 1.0]
Clamp01(d) == IF d > NormConst THEN 100 ELSE IF d < 0 THEN 0 ELSE (d * 100) \div NormConst

StrictlyAscending(seq) ==
    \A i, j \in DOMAIN seq : i < j => seq[i] < seq[j]

\* C12: the anomaly indices returned by Extract, and those stored in every
\* record, are strictly ascending: no index twice, none before a smaller.
C12_AscendingIndices ==
    /\ \A r \in Reqs : StrictlyAscending(anomaly_indices[r])
    /\ \A x \in results : StrictlyAscending(x.anomaly_indices)

C12_Witness ==
    \E x \in results :
        /\ Len(x.anomaly_indices) >= 2
        /\ x.anomaly_indices[1] < x.anomaly_indices[2]

\* ------------------------------------------------------------------ C13
\* C13 (as claimed): every anomaly index of a record is a position of its
\* series counted from 1.
C13_Original ==
    \A x \in results :
        \A j \in DOMAIN x.anomaly_indices :
            x.anomaly_indices[j] \in 1..Len(x.original_data)

\* C13 (amended): every anomaly index of a record is a position of its
\* series counted from 0 (0 <= index <= length - 1), index i being the
\* score line of sample i + 1; a record never has more flags than samples.
C13_ZeroBasedIndices ==
    \A x \in results :
        /\ \A j \in DOMAIN x.anomaly_indices :
              /\ x.anomaly_indices[j] \in 0..(Len(x.original_data) - 1)
              /\ Parses(lines[x.req][x.anomaly_indices[j] + 1])
              /\ Confidence(lines[x.req][x.anomaly_indices[j] + 1]) > Threshold
        /\ Len(x.anomaly_indices) <= Len(x.original_data)

C13_Witness ==
    \E x \in results :
        /\ x.anomaly_indices # << >>
        /\ x.anomaly_indices[1] = 0
        /\ x.anomaly_indices[Len(x.anomaly_indices)] = Len(x.original_data) - 1

\* ------------------------------------------------------------------ C17
\* C17: in every successful upload result, anomaly_count is the number of
\* anomaly indices and the number of confidence scores, and the k-th
\* confidence score is the confidence of the line of the k-th index.
C17_ParallelLists ==
    \A r \in Reqs :
        response[r] # Null =>
            /\ response[r].anomaly_count = Len(response[r].anomaly_indices)
            /\ response[r].anomaly_count = Len(response[r].confidence_scores)
            /\ \A k \in DOMAIN response[r].anomaly_indices :
                   response[r].confidence_scores[k] =
                       Confidence(lines[r][response[r].anomaly_indices[k] + 1])

C17_Witness ==
    \E r \in Reqs :
        /\ response[r] # Null
        /\ response[r].anomaly_count >= 2
        /\ \E k \in DOMAIN response[r].confidence_scores :
               response[r].confidence_scores[k] # response[r].confidence_scores[1]

NonIncreasing(l) ==
    \A i, j \in DOMAIN l : i < j => l[i].uploaded_at >= l[j].uploaded_at

\* C16: ListByOwner(owner) gives one summary for every record that owner
\* uploaded and none for a record of another owner, most recent first, the
\* anomaly count of a summary being the number of flags of its record.
C16_ListByOwner ==
    /\ \A o \in Owners :
          LET l    == ListByOwner(results, o)
              mine == {x \in results : user_id[x.req] = o}
          IN
          /\ Len(l) = Cardinality(mine)
          /\ \A x \in mine :
                \E i \in DOMAIN l :
                    /\ l[i].id = x.id
                    /\ l[i].filename = file[x.req].filename
                    /\ l[i].anomaly_count = Len(anomaly_indices[x.req])
                    /\ l[i].uploaded_at = x.uploaded_at
          /\ NonIncreasing(l)
    /\ got.op = "list" =>
          /\ NonIncreasing(got.list)
          /\ \A i \in DOMAIN got.list :
                \E x \in results :
                    /\ user_id[x.req] = got.owner
                    /\ Summary(x) = got.list[i]

C16_Witness ==
    /\ got.op = "list"
    /\ Len(got.list) = 2
    /\ got.list[1].uploaded_at > got.list[2].uploaded_at
    /\ got.list[1].id > got.list[2].id
    /\ got.list[1].anomaly_count = 1

\* ------------------------------------------------------------------ C20
\* C20: a session established by a successful login or signup persists
\* across page reloads: the stored item is the JSON text of the session's
\* auth data from the moment the login succeeds until logout, whatever
\* reloads happen in between, every mount whose effect has run has that
\* auth data as its auth state, and after logout neither the stored item
\* nor the auth state of any later mount is set.
C20_SessionPersists ==
    /\ localStorage = (IF session = Null THEN NoItem ELSE JSONstringify(session))
    /\ phase = "ready" => auth = session
    /\ authFrom = "storage" => auth = session /\ session # Null
    /\ authFrom = "logout" => auth = Null /\ ~localStorage.present

\* a reloaded page whose mount effect restored the session from localStorage
C20_Witness ==
    /\ phase = "ready"
    /\ authFrom = "storage"
    /\ session \in {AuthData(u, t) : u \in Owners, t \in Tokens}
    /\ auth = session
    /\ localStorage.present

\* ------------------------------------------------------------------ C21
Extracted(r) == pc[r] \in {"extracted", "inserted", "done"}

C22_NoRequestAfterLogout ==
    [][auth' = Null => /\ Len(fetches') <= Len(fetches)
                       /\ Len(uploads') <= Len(uploads)]_vars

\* ------------------------------------------------------------------ C24
\* the records the displayed history lists
Listed == {history[i].id : i \in DOMAIN history}

\* C24: after a successful upload, once no history fetch of the dashboard
\* is in flight and none has failed, the displayed history lists the record
\* of the upload whose results are displayed.
C24_HistoryHasNewest ==
    (/\ DashboardShown
     /\ dashResults # Null
     /\ ~console
     /\ \A k \in DOMAIN fetches : ~fetches[k].live)
    => dashResults.result_id \in Listed

\* ------------------------------------------------------------------ C25
\* the uploads in flight that the mounted Dashboard started
LiveUploads == {k \in DOMAIN uploads : uploads[k].live}

\* C25: a dashboard has at most one upload request in flight: loading is
\* true exactly while its request is in flight, and a submission is accepted
\* only while loading is false.
C25_SingleUploadInFlight ==
    /\ Cardinality(LiveUploads) <= 1
    /\ dashLoading <=> LiveUploads # {}
    /\ LiveUploads # {} => DashboardShown

\* a dashboard waiting for its upload while an upload of an earlier
\* dashboard is still in flight
C25_Witness ==
    /\ dashLoading
    /\ Cardinality(LiveUploads) = 1
    /\ Len(uploads) = 2
    /\ dashFile # NoFile

\* ------------------------------------------------------------------ C26
\* C26: a failed upload changes only error and loading: results, history
\* and the selected file stay as they were, no history fetch is started, the
\* error message is set and loading is false again; and no request is ever
\* sent without a file.
C26_FailedUploadFrame ==
    /\ [](\A k \in DOMAIN uploads : uploads[k].file # NoFile)
    /\ [][\A k \in DOMAIN uploads :
             UploadFails(k) =>
                /\ dashResults' = dashResults
                /\ history' = history
                /\ dashFile' = dashFile
                /\ fetches' = fetches
                /\ auth' = auth
                /\ uploads[k].live => dashError' = UploadFailed /\ ~dashLoading']_vars

\* after a failed upload the earlier results are still displayed and the
\* rejected file is still selected
C26_Witness ==
    /\ DashboardShown
    /\ dashError = UploadFailed
    /\ ~dashLoading
    /\ dashResults # Null
    /\ dashFile \in ClientFiles
    /\ Len(history) > 0

\* ------------------------------------------------------------------ C23
\* C23: a login or signup whose request fails leaves the session as it
\* was: auth and the stored item are unchanged, onSuccess is not called, and
\* in the modal that sent the request (still open, nobody logged in) the
\* error message is set and loading is false again.
C23_FailedLoginFrame ==
    [][\A c \in Calls :
          AuthFails(c) =>
             /\ auth' = auth
             /\ localStorage' = localStorage
             /\ authMode' = authMode
             /\ pending[c].live =>
                   /\ auth' = Null
                   /\ ~localStorage'.present
                   /\ authMode' # "none"
                   /\ error' = AuthFailed
                   /\ ~loading']_vars

\* the open modal showing the error of its failed request
C23_Witness ==
    /\ phase = "ready"
    /\ auth = Null
    /\ ~localStorage.present
    /\ authMode = "signup"
    /\ error = AuthFailed
    /\ ~loading

====
